---- MODULE Spec2Model ----
(***************************************************************************)
(* bfdb: a command-line debugger for brainfuck.                            *)
(*                                                                         *)
(* The model follows the most complete revision of the debugger            *)
(* (src/unnamed/part_002): compile() with line/column tracking, the        *)
(* command handlers cmd_*, and the debugger actions dbg_*.  One step of    *)
(* the model is one command line handed to parse_command by main's loop.   *)
(***************************************************************************)
EXTENDS Integers, Sequences, FiniteSets, TLC

(***************************************************************************)
(* Sizes.  The source sets PROGRAM_SIZE 4096, STACK_SIZE 512 and           *)
(* DATA_SIZE 65535 (part_002:11-13); the model keeps the names and checks  *)
(* the same code with small stores, so the capacity edges are reachable.   *)
(***************************************************************************)
PROGRAM_SIZE == 12
STACK_SIZE == 2
DATA_SIZE == 6

\* unsigned short: operator, operand, instr_count, pc and the cells are 16 bit
USHORT_MOD == 65536
\* getchar() at end of input
EOF == -1

\* Bounds of the exploration
MaxLen == 3        \* longest enumerated source text (SpecCompile)
MaxSteps == 8      \* instructions one command may execute
MaxTape == 2       \* how far the tape as a whole may be from all-zero
MaxLoads == 2      \* file commands with an argument in one session

\* 16-bit arithmetic that sticks at the ends of the range instead of wrapping
USHORT_saturating(x) == IF x < 0 THEN 0 ELSE IF x >= USHORT_MOD THEN USHORT_MOD - 1 ELSE x

USHORT(x) == x % USHORT_MOD

NULL == <<"NULL">>

\* enum { OP_END, OP_INC, ... , OP_RET }
OP_END == 0
OP_INC == 1
OP_DEC == 2
OP_ADD == 3
OP_SUB == 4
OP_OUT == 5
OP_IN == 6
OP_JMP == 7
OP_RET == 8

\* const char* INSTRUCTIONS[]: glyph of an operator (the table has 9 entries;
\* any other index reads past its end)
INSTRUCTIONS(op) ==
  CASE op = OP_END -> "EOF"
    [] op = OP_INC -> ">"
    [] op = OP_DEC -> "<"
    [] op = OP_ADD -> "+"
    [] op = OP_SUB -> "-"
    [] op = OP_OUT -> "."
    [] op = OP_IN -> ","
    [] op = OP_JMP -> "["
    [] op = OP_RET -> "]"
    [] OTHER -> "?"

VARIABLES
  instructions,  \* program.instructions: slot -> [operator, operand]
  instr_count,   \* program.instr_count
  stack,         \* program.stack: pending '[' slots
  esp,           \* program.esp
  run,           \* main loop flag
  loaded,        \* a program has been loaded
  running,       \* runtime.running
  data,          \* runtime.data: the tape
  pc,            \* runtime.pc
  ptr,           \* runtime.ptr
  report,        \* what the last command wrote to stdout/stderr (messages)
  output,        \* bytes the last command's program steps wrote with putchar
  last,          \* the handler the last command line invoked, its argument, and the
                 \* values of running and loaded when it was issued
  loads,         \* how many files the session has asked to load
  ended          \* how the latest run ended: "none" (not yet), "normal", "error", "load"

vars == <<instructions, instr_count, stack, esp, run, loaded, running, data, pc, ptr,
          report, output, last, loads, ended>>

Slots == 0 .. (PROGRAM_SIZE - 1)
Cells == 0 .. (DATA_SIZE - 1)

(***************************************************************************)
(* compile(fp, prog)                                                       *)
(***************************************************************************)
\* compile_error(line, col, fmt, ...): the two lines it prints
compile_error(line, col, what) ==
  << <<"compile_error", line, col, what>>, <<"Compilation exited with error.">> >>

\* prog->instructions[slot].operator = op
SetOperator(ins, slot, op) ==
  [ins EXCEPT ![slot] = [operator |-> USHORT(op), operand |-> ins[slot].operand]]

\* prog->instructions[slot].operand = v
SetOperand(ins, slot, v) ==
  [ins EXCEPT ![slot] = [operator |-> ins[slot].operator, operand |-> USHORT(v)]]

\* operator of a plain glyph, 9 for '[' and ']' handled apart, -1 for any other character
GlyphOp(c) ==
  CASE c = ">" -> OP_INC
    [] c = "<" -> OP_DEC
    [] c = "+" -> OP_ADD
    [] c = "-" -> OP_SUB
    [] c = "." -> OP_OUT
    [] c = "," -> OP_IN
    [] OTHER -> -1

\* the case ']' of compile's switch, after the empty-stack check:
\* jmp_pc = stack[--esp]; three stores
CloseBracket(ins, cpc, jmp_pc) ==
  SetOperator(SetOperand(SetOperator(ins, cpc, OP_RET), cpc, jmp_pc), jmp_pc, cpc)

\* a column that is not reset at a newline
NextCol_no_reset(c, col) == col + 1

\* line/col bookkeeping at the end of one loop iteration
NextLine(c, line) == IF c = "\n" THEN line + 1 ELSE line
NextCol(c, col) == IF c = "\n" THEN 1 ELSE col + 1

\* work after the read loop that looks at the pending stack first
CompileTail_pending_first(st) ==
  IF st.esp # 0
    THEN [st EXCEPT !.ok = FALSE]
  ELSE IF st.pc = PROGRAM_SIZE
    THEN [st EXCEPT !.ok = FALSE,
                    !.msgs = compile_error(st.line, st.col, "instruction count exceeds capacity")]
  ELSE [st EXCEPT !.ok = TRUE,
                  !.ins = SetOperator(st.ins, st.pc, OP_END),
                  !.count = USHORT(st.pc + 1)]

\* Work after the read loop: capacity check, pending-stack check, OP_END
CompileTail(st) ==
  IF st.pc = PROGRAM_SIZE
    THEN [st EXCEPT !.ok = FALSE,
                    !.msgs = compile_error(st.line, st.col, "instruction count exceeds capacity")]
  ELSE IF st.esp # 0
    THEN [st EXCEPT !.ok = FALSE]
  ELSE [st EXCEPT !.ok = TRUE,
                  !.ins = SetOperator(st.ins, st.pc, OP_END),
                  !.count = USHORT(st.pc + 1)]

\* a read loop that refuses the '[' that would fill the last stack entry
RECURSIVE CompileLoop_shallow(_, _, _)
CompileLoop_shallow(src, i, st) ==
  IF i > Len(src) \/ ~(st.pc < PROGRAM_SIZE)
    THEN CompileTail(st)
  ELSE
    LET c == src[i]
        adv(s) == [s EXCEPT !.pc = USHORT(s.pc + 1),
                            !.line = NextLine(c, s.line),
                            !.col = NextCol(c, s.col)]
    IN
    IF GlyphOp(c) # -1
      THEN CompileLoop_shallow(src, i + 1, adv([st EXCEPT !.ins = SetOperator(st.ins, st.pc, GlyphOp(c))]))
    ELSE IF c = "["
      THEN LET s1 == [st EXCEPT !.ins = SetOperator(st.ins, st.pc, OP_JMP)] IN
           IF s1.esp + 1 = STACK_SIZE
             THEN [s1 EXCEPT !.ok = FALSE,
                             !.msgs = compile_error(st.line, st.col, "loop count exceeds capacity")]
             ELSE CompileLoop_shallow(src, i + 1,
                    adv([s1 EXCEPT !.stack = [s1.stack EXCEPT ![s1.esp] = s1.pc],
                                   !.esp = s1.esp + 1]))
    ELSE IF c = "]"
      THEN IF st.esp = 0
             THEN [st EXCEPT !.ok = FALSE,
                             !.msgs = compile_error(st.line, st.col, "unmatched ]")]
             ELSE CompileLoop_shallow(src, i + 1,
                    adv([st EXCEPT !.esp = st.esp - 1,
                                   !.ins = CloseBracket(st.ins, st.pc, st.stack[st.esp - 1])]))
    ELSE \* default: pc--; then the common pc++
      CompileLoop_shallow(src, i + 1, adv([st EXCEPT !.pc = USHORT(st.pc - 1)]))

\* The read loop, from character i of the source on.
\* st = [ins, stack, esp, count, pc, line, col, ok, msgs]
RECURSIVE CompileLoop(_, _, _)
CompileLoop(src, i, st) ==
  IF i > Len(src) \/ ~(st.pc < PROGRAM_SIZE)
    THEN CompileTail(st)
  ELSE
    LET c == src[i]
        adv(s) == [s EXCEPT !.pc = USHORT(s.pc + 1),
                            !.line = NextLine(c, s.line),
                            !.col = NextCol(c, s.col)]
    IN
    IF GlyphOp(c) # -1
      THEN CompileLoop(src, i + 1, adv([st EXCEPT !.ins = SetOperator(st.ins, st.pc, GlyphOp(c))]))
    ELSE IF c = "["
      THEN LET s1 == [st EXCEPT !.ins = SetOperator(st.ins, st.pc, OP_JMP)] IN
           IF s1.esp = STACK_SIZE
             THEN [s1 EXCEPT !.ok = FALSE,
                             !.msgs = compile_error(st.line, st.col, "loop count exceeds capacity")]
             ELSE CompileLoop(src, i + 1,
                    adv([s1 EXCEPT !.stack = [s1.stack EXCEPT ![s1.esp] = s1.pc],
                                   !.esp = s1.esp + 1]))
    ELSE IF c = "]"
      THEN IF st.esp = 0
             THEN [st EXCEPT !.ok = FALSE,
                             !.msgs = compile_error(st.line, st.col, "unmatched ]")]
             ELSE CompileLoop(src, i + 1,
                    adv([st EXCEPT !.esp = st.esp - 1,
                                   !.ins = CloseBracket(st.ins, st.pc, st.stack[st.esp - 1])]))
    ELSE \* default: pc--; then the common pc++
      CompileLoop(src, i + 1, adv([st EXCEPT !.pc = USHORT(st.pc - 1)]))

\* compile(fp, &program) on the current program store; line, col and pc are its locals
compile(src, ins, stk, sp, count) ==
  CompileLoop(src, 1,
    [ins |-> ins, stack |-> stk, esp |-> sp, count |-> count,
     pc |-> 0, line |-> 1, col |-> 1, ok |-> FALSE, msgs |-> <<>>])

(***************************************************************************)
(* Helpers: to_int                                                         *)
(***************************************************************************)
IsDigit(c) == c \in {"0", "1", "2", "3", "4", "5", "6", "7", "8", "9"}

DigitVal(c) ==
  CASE c = "0" -> 0 [] c = "1" -> 1 [] c = "2" -> 2 [] c = "3" -> 3 [] c = "4" -> 4
    [] c = "5" -> 5 [] c = "6" -> 6 [] c = "7" -> 7 [] c = "8" -> 8 [] c = "9" -> 9

\* strtol's digit scan from position i: [value, next position]
RECURSIVE ScanDigits(_, _, _)
ScanDigits(str, i, acc) ==
  IF i <= Len(str) /\ IsDigit(str[i])
    THEN ScanDigits(str, i + 1, acc * 10 + DigitVal(str[i]))
    ELSE [value |-> acc, end |-> i]

\* strtol(str, &endptr, 10) on a token without blanks: optional sign, then digits;
\* without any digit no conversion happens, the value is 0 and endptr = str
strtol(str) ==
  LET signed == Len(str) >= 1 /\ str[1] \in {"-", "+"}
      first == IF signed THEN 2 ELSE 1
      d == ScanDigits(str, first, 0)
  IN IF d.end = first
       THEN [value |-> 0, converted |-> FALSE]
       ELSE [value |-> IF signed /\ str[1] = "-" THEN 0 - d.value ELSE d.value,
             converted |-> TRUE]

\* to_int(str, 10, allow_neg, &converted)
to_int(str, allow_neg) ==
  LET r == strtol(str) IN
  IF ~r.converted
    THEN [ok |-> FALSE, value |-> r.value, msgs |-> << <<"invalid numeric argument">> >>]
  ELSE IF ~allow_neg /\ r.value < 0
    THEN [ok |-> FALSE, value |-> r.value, msgs |-> << <<"negative not allowed">> >>]
  ELSE [ok |-> TRUE, value |-> r.value, msgs |-> <<>>]

(***************************************************************************)
(* The runtime: rt = [running, data, pc, ptr]                              *)
(***************************************************************************)
\* program.instructions[pc]: a pc past the store reads whatever lies behind it (ub)
Fetch(ins, at, ub) == IF at < PROGRAM_SIZE THEN ins[at] ELSE ub

\* a report that names the faulting instruction by its 0-based index
dbg_runtime_error_from_zero(rt, ins, ub, what) ==
  [rt |-> [rt EXCEPT !.running = FALSE],
   msgs |-> << <<"Runtime error", what, rt.pc,
                 INSTRUCTIONS(Fetch(ins, rt.pc, ub).operator), rt.ptr, rt.data[rt.ptr]>>,
               <<"Brainfuck exited with error.">> >>]

\* dbg_runtime_error(fmt, ...): the report and runtime.running = false
dbg_runtime_error(rt, ins, ub, what) ==
  [rt |-> [rt EXCEPT !.running = FALSE],
   msgs |-> << <<"Runtime error", what, rt.pc + 1,
                 INSTRUCTIONS(Fetch(ins, rt.pc, ub).operator), rt.ptr, rt.data[rt.ptr]>>,
               <<"Brainfuck exited with error.">> >>]

\* a run that keeps the tape of the previous run
dbg_run_keeps_tape(rt) ==
  [running |-> TRUE, data |-> rt.data, pc |-> 0, ptr |-> 0]

\* dbg_run()
dbg_run(rt) ==
  [running |-> TRUE, data |-> [i \in Cells |-> 0], pc |-> 0, ptr |-> 0]

\* a read that yields 0 at end of input
getchar_zero_at_end(inp) == IF inp = <<>> THEN 0 ELSE Head(inp)

\* getchar() on the remaining input
getchar(inp) == IF inp = <<>> THEN EOF ELSE Head(inp)

\* a write that does not narrow its argument to a byte
putchar_wide(c) == c

\* putchar(c) writes (unsigned char) c
putchar(c) == c % 256

\* an upper bound that lets the pointer step onto DATA_SIZE
CanIncPtr_inclusive(p) == p + 1 <= DATA_SIZE

\* a lower bound that lets the pointer step below cell 0
CanDecPtr_loose(p) == p >= 0

\* the pointer checks of OP_INC and OP_DEC
CanIncPtr(p) == p + 1 < DATA_SIZE
CanDecPtr(p) == p > 0

\* a ']' that jumps back on a zero cell
RetTaken_on_zero(cell) == cell = 0

\* the jump conditions of OP_JMP and OP_RET
JmpTaken(cell) == cell = 0
RetTaken(cell) == cell # 0

\* an interpreter that moves pc past OP_END when it halts
dbg_interpret_past_end(rt, instruction, ins, ub, inp) ==
  LET op == instruction.operator
      cell == rt.data[rt.ptr]
      res(r, ret, msgs, out, rest) ==
        [rt |-> r, ret |-> ret, msgs |-> msgs, out |-> out, inp |-> rest]
      \* break; runtime->pc++; return false
      done(r, out, rest) == res([r EXCEPT !.pc = USHORT(r.pc + 1)], FALSE, <<>>, out, rest)
  IN
  IF op = OP_END
    THEN res([rt EXCEPT !.running = FALSE, !.pc = USHORT(rt.pc + 1)], TRUE,
             << <<"Brainfuck exited normally.">> >>, <<>>, inp)
  ELSE IF op = OP_INC
    THEN IF CanIncPtr(rt.ptr)
           THEN done([rt EXCEPT !.ptr = rt.ptr + 1], <<>>, inp)
           ELSE LET e == dbg_runtime_error(rt, ins, ub, "increment out of range")
                IN res(e.rt, TRUE, e.msgs, <<>>, inp)
  ELSE IF op = OP_DEC
    THEN IF CanDecPtr(rt.ptr)
           THEN done([rt EXCEPT !.ptr = rt.ptr - 1], <<>>, inp)
           ELSE LET e == dbg_runtime_error(rt, ins, ub, "decrement below 0")
                IN res(e.rt, TRUE, e.msgs, <<>>, inp)
  ELSE IF op = OP_ADD
    THEN done([rt EXCEPT !.data[rt.ptr] = USHORT(cell + 1)], <<>>, inp)
  ELSE IF op = OP_SUB
    THEN done([rt EXCEPT !.data[rt.ptr] = USHORT(cell - 1)], <<>>, inp)
  ELSE IF op = OP_OUT
    THEN done(rt, <<putchar(cell)>>, inp)
  ELSE IF op = OP_IN
    THEN done([rt EXCEPT !.data[rt.ptr] = USHORT(getchar(inp))], <<>>,
              IF inp = <<>> THEN inp ELSE Tail(inp))
  ELSE IF op = OP_JMP
    THEN done(IF JmpTaken(cell) THEN [rt EXCEPT !.pc = instruction.operand] ELSE rt, <<>>, inp)
  ELSE IF op = OP_RET
    THEN done(IF RetTaken(cell) THEN [rt EXCEPT !.pc = instruction.operand] ELSE rt, <<>>, inp)
  ELSE \* no case of the switch matches
    done(rt, <<>>, inp)

\* dbg_interpret(&runtime, instruction):
\* [rt, ret, msgs, out, inp] with ret the returned bool, out the bytes written,
\* inp the input left
dbg_interpret(rt, instruction, ins, ub, inp) ==
  LET op == instruction.operator
      cell == rt.data[rt.ptr]
      res(r, ret, msgs, out, rest) ==
        [rt |-> r, ret |-> ret, msgs |-> msgs, out |-> out, inp |-> rest]
      \* break; runtime->pc++; return false
      done(r, out, rest) == res([r EXCEPT !.pc = USHORT(r.pc + 1)], FALSE, <<>>, out, rest)
  IN
  IF op = OP_END
    THEN res([rt EXCEPT !.running = FALSE], TRUE, << <<"Brainfuck exited normally.">> >>, <<>>, inp)
  ELSE IF op = OP_INC
    THEN IF CanIncPtr(rt.ptr)
           THEN done([rt EXCEPT !.ptr = rt.ptr + 1], <<>>, inp)
           ELSE LET e == dbg_runtime_error(rt, ins, ub, "increment out of range")
                IN res(e.rt, TRUE, e.msgs, <<>>, inp)
  ELSE IF op = OP_DEC
    THEN IF CanDecPtr(rt.ptr)
           THEN done([rt EXCEPT !.ptr = rt.ptr - 1], <<>>, inp)
           ELSE LET e == dbg_runtime_error(rt, ins, ub, "decrement below 0")
                IN res(e.rt, TRUE, e.msgs, <<>>, inp)
  ELSE IF op = OP_ADD
    THEN done([rt EXCEPT !.data[rt.ptr] = USHORT(cell + 1)], <<>>, inp)
  ELSE IF op = OP_SUB
    THEN done([rt EXCEPT !.data[rt.ptr] = USHORT(cell - 1)], <<>>, inp)
  ELSE IF op = OP_OUT
    THEN done(rt, <<putchar(cell)>>, inp)
  ELSE IF op = OP_IN
    THEN done([rt EXCEPT !.data[rt.ptr] = USHORT(getchar(inp))], <<>>,
              IF inp = <<>> THEN inp ELSE Tail(inp))
  ELSE IF op = OP_JMP
    THEN done(IF JmpTaken(cell) THEN [rt EXCEPT !.pc = instruction.operand] ELSE rt, <<>>, inp)
  ELSE IF op = OP_RET
    THEN done(IF RetTaken(cell) THEN [rt EXCEPT !.pc = instruction.operand] ELSE rt, <<>>, inp)
  ELSE \* no case of the switch matches
    done(rt, <<>>, inp)

\* a for loop that runs while i <= count: one iteration too many
RECURSIVE NextLoop_one_more(_, _, _, _, _)
NextLoop_one_more(count, i, acc, ins, ub) ==
  IF ~(i <= count) THEN acc
  ELSE IF acc.steps >= MaxSteps THEN [acc EXCEPT !.over = TRUE]
  ELSE
    LET r == dbg_interpret(acc.rt, Fetch(ins, acc.rt.pc, ub), ins, ub, acc.inp)
        a == [rt |-> r.rt, ret |-> r.ret, msgs |-> acc.msgs \o r.msgs,
              out |-> acc.out \o r.out, inp |-> r.inp,
              steps |-> acc.steps + 1, over |-> FALSE]
    IN IF r.ret THEN a ELSE NextLoop_one_more(count, i + 1, a, ins, ub)

\* The for loop of dbg_next: iteration i of count.
\* acc = [rt, ret, msgs, out, inp, steps, over]; over: the step bound was hit
RECURSIVE NextLoop(_, _, _, _, _)
NextLoop(count, i, acc, ins, ub) ==
  IF ~(i < count) THEN acc
  ELSE IF acc.steps >= MaxSteps THEN [acc EXCEPT !.over = TRUE]
  ELSE
    LET r == dbg_interpret(acc.rt, Fetch(ins, acc.rt.pc, ub), ins, ub, acc.inp)
        a == [rt |-> r.rt, ret |-> r.ret, msgs |-> acc.msgs \o r.msgs,
              out |-> acc.out \o r.out, inp |-> r.inp,
              steps |-> acc.steps + 1, over |-> FALSE]
    IN IF r.ret THEN a ELSE NextLoop(count, i + 1, a, ins, ub)

\* the state a command starts its stepping from
StepStart(rt, inp) ==
  [rt |-> rt, ret |-> FALSE, msgs |-> <<>>, out |-> <<>>, inp |-> inp,
   steps |-> 0, over |-> FALSE]

\* dbg_next(count), continuing the stepping state acc
dbg_next(count, acc, ins, ub) ==
  IF count < 0
    THEN [acc EXCEPT !.ret = FALSE, !.msgs = acc.msgs \o << <<"Count has to be greater than 0", count>> >>]
    ELSE NextLoop(count, 0, [acc EXCEPT !.ret = FALSE], ins, ub)

\* a continue that steps once and returns
ContinueLoop_once(acc, ins, ub) == dbg_next(1, acc, ins, ub)

\* while (!dbg_next(1)) {}
RECURSIVE ContinueLoop(_, _, _)
ContinueLoop(acc, ins, ub) ==
  LET a == dbg_next(1, acc, ins, ub) IN
  IF a.over \/ a.ret THEN a ELSE ContinueLoop(a, ins, ub)

\* a jump that does not accept the index of the last instruction
dbg_jump_before_end(at, index, count) ==
  IF index < 1 \/ index >= count
    THEN [pc |-> at, msgs |-> << <<"Not in range of program's instructions", index, count>> >>]
    ELSE [pc |-> USHORT(index - 1), msgs |-> <<>>]

\* a jump that takes the index as 0-based
dbg_jump_zero_based(at, index, count) ==
  IF index < 1 \/ index > count
    THEN [pc |-> at, msgs |-> << <<"Not in range of program's instructions", index, count>> >>]
    ELSE [pc |-> USHORT(index), msgs |-> <<>>]

\* dbg_jump(&program, index): the new pc and the message
dbg_jump(at, index, count) ==
  IF index < 1 \/ index > count
    THEN [pc |-> at, msgs |-> << <<"Not in range of program's instructions", index, count>> >>]
    ELSE [pc |-> USHORT(index - 1), msgs |-> <<>>]

(***************************************************************************)
(* Inputs                                                                  *)
(***************************************************************************)
\* a file name fopen cannot open; every other file argument stands for a
\* readable file and is written as that file's text
NoSuchFile == <<"no such file">>

\* n copies of the character c
Rep(c, n) == [i \in 1 .. n |-> c]

\* the source texts of the debugging sessions explored by Spec
Programs ==
  { <<"<">>,
    <<">", "<", "<">>,
    <<"[">>,
    <<"]">>,
    <<"+", "[", "-", "]">>,
    <<",", ".">> }

\* every text of at most MaxLen characters over a reduced alphabet (SpecCompile)
Alphabet == {"+", "[", "]", "x", "\n"}
AllSources == UNION {[1 .. n -> Alphabet] : n \in 0 .. MaxLen}

\* a loop long enough for its ']' to sit in a slot beyond the operator codes
LongLoop == <<"[">> \o Rep("+", OP_RET) \o <<"]">>

\* loops nested as deep as the bracket stack, and one '[' deeper
DeepLoop == Rep("[", STACK_SIZE) \o Rep("]", STACK_SIZE)
TooDeep == Rep("[", STACK_SIZE + 1)

\* sources at the capacity of the instruction store: one glyph below it, with
\* and without a loop, and at or above it, with and without a '[' pending
FullSources ==
  {Rep("+", PROGRAM_SIZE - 1), <<"[">> \o Rep("+", PROGRAM_SIZE - 3) \o <<"]">>}
TooLargeSources ==
  {Rep("+", PROGRAM_SIZE), Rep("+", PROGRAM_SIZE + 1), <<"[">> \o Rep("+", PROGRAM_SIZE - 1)}
EdgeSources == {LongLoop, DeepLoop, TooDeep} \cup FullSources \cup TooLargeSources

\* what stdin holds for getchar while one command steps the program
Inputs == {<<>>, <<65>>}

\* what a fetch past the end of the instruction store may read
PastStore == {[operator |-> o, operand |-> 0] : o \in {OP_END, OP_ADD, 9}}

\* the tapes the exploration keeps: the distances of the cells from 0, counted
\* around the 16-bit wrap, add up to at most MaxTape (the input byte 65 counts 1)
Distance(v) == IF v = 65 THEN 1 ELSE IF v <= USHORT_MOD - v THEN v ELSE USHORT_MOD - v
RECURSIVE TapeDistance(_, _)
TapeDistance(d, i) == IF i >= DATA_SIZE THEN 0 ELSE Distance(d[i]) + TapeDistance(d, i + 1)
TapeOK(d) == TapeDistance(d, 0) <= MaxTape

\* a decimal token
Digit(n) == CASE n = 0 -> "0" [] n = 1 -> "1" [] n = 2 -> "2" [] n = 3 -> "3" [] n = 4 -> "4"
              [] n = 5 -> "5" [] n = 6 -> "6" [] n = 7 -> "7" [] n = 8 -> "8" [] n = 9 -> "9"
RECURSIVE Dec(_)
Dec(n) == IF n < 0 THEN <<"-">> \o Dec(0 - n)
          ELSE IF n < 10 THEN <<Digit(n)>>
          ELSE Dec(n \div 10) \o <<Digit(n % 10)>>

(***************************************************************************)
(* Debugger actions on the state                                           *)
(***************************************************************************)
NotRunning == << <<"The program is not being run.">> >>

Runtime == [running |-> running, data |-> data, pc |-> pc, ptr |-> ptr]

\* the runtime after a stepping command, with what it printed
Commit(a) ==
  /\ ~a.over
  /\ TapeOK(a.rt.data)
  /\ running' = a.rt.running
  /\ data' = a.rt.data
  /\ pc' = a.rt.pc
  /\ ptr' = a.rt.ptr
  /\ report' = a.msgs
  /\ output' = a.out
  /\ ended' = IF a.rt.running \/ ~running THEN ended
              ELSE IF a.msgs[Len(a.msgs)] = <<"Brainfuck exited normally.">> THEN "normal"
              ELSE "error"

Says(msgs) == report' = msgs /\ output' = <<>>

ProgramUnchanged == UNCHANGED <<instructions, instr_count, stack, esp, loaded, loads>>
RuntimeUnchanged == UNCHANGED <<running, data, pc, ptr, ended>>

\* a load that also clears the tape
dbg_load_clears_tape(file_name) ==
  /\ loads < MaxLoads
  /\ loads' = loads + 1
  /\ running' = FALSE
  /\ ended' = IF running THEN "load" ELSE ended
  /\ data' = [i \in Cells |-> 0]
  /\ UNCHANGED <<pc, ptr>>
  /\ output' = <<>>
  /\ IF file_name # NoSuchFile
       THEN LET c == compile(file_name, instructions, stack, esp, instr_count) IN
            /\ instructions' = c.ins
            /\ stack' = c.stack
            /\ esp' = c.esp
            /\ instr_count' = c.count
            /\ loaded' = c.ok
            /\ report' = << <<"Reading">> >> \o c.msgs
                         \o (IF c.ok THEN <<>> ELSE << <<"Could not read from">> >>)
       ELSE /\ UNCHANGED <<instructions, instr_count, stack, esp, loaded>>
            /\ report' = << <<"No such file or directory.">> >>

\* a load that leaves the current run going
dbg_load_keeps_running(file_name) ==
  /\ loads < MaxLoads
  /\ loads' = loads + 1
  /\ UNCHANGED <<running, ended>>
  /\ UNCHANGED <<data, pc, ptr>>
  /\ output' = <<>>
  /\ IF file_name # NoSuchFile
       THEN LET c == compile(file_name, instructions, stack, esp, instr_count) IN
            /\ instructions' = c.ins
            /\ stack' = c.stack
            /\ esp' = c.esp
            /\ instr_count' = c.count
            /\ loaded' = c.ok
            /\ report' = << <<"Reading">> >> \o c.msgs
                         \o (IF c.ok THEN <<>> ELSE << <<"Could not read from">> >>)
       ELSE /\ UNCHANGED <<instructions, instr_count, stack, esp, loaded>>
            /\ report' = << <<"No such file or directory.">> >>

\* dbg_load(file_name)
dbg_load(file_name) ==
  /\ loads < MaxLoads
  /\ loads' = loads + 1
  /\ running' = FALSE
  /\ ended' = IF running THEN "load" ELSE ended
  /\ UNCHANGED <<data, pc, ptr>>
  /\ output' = <<>>
  /\ IF file_name # NoSuchFile
       THEN LET c == compile(file_name, instructions, stack, esp, instr_count) IN
            /\ instructions' = c.ins
            /\ stack' = c.stack
            /\ esp' = c.esp
            /\ instr_count' = c.count
            /\ loaded' = c.ok
            /\ report' = << <<"Reading">> >> \o c.msgs
                         \o (IF c.ok THEN <<>> ELSE << <<"Could not read from">> >>)
       ELSE /\ UNCHANGED <<instructions, instr_count, stack, esp, loaded>>
            /\ report' = << <<"No such file or directory.">> >>

(***************************************************************************)
(* Command handlers                                                        *)
(***************************************************************************)
Invoked(h, arg) ==
  last' = [handler |-> h, arg |-> arg, running |-> running, loaded |-> loaded]

cmd_help(unused) ==
  /\ Invoked("help", NULL)
  /\ Says(<< <<"List of commands:">> >>)
  /\ ProgramUnchanged /\ RuntimeUnchanged /\ UNCHANGED run

cmd_quit(unused) ==
  /\ Invoked("quit", NULL)
  /\ run' = FALSE
  /\ Says(<<>>)
  /\ ProgramUnchanged /\ RuntimeUnchanged

cmd_file(file_name) ==
  /\ Invoked("file", file_name)
  /\ UNCHANGED run
  /\ IF file_name # NULL
       THEN dbg_load(file_name)
       ELSE /\ Says(<< <<"error: 'file' takes exactly one file path argument.">> >>)
            /\ ProgramUnchanged /\ RuntimeUnchanged

\* a run command that also clears the program's instruction count
cmd_run_clears_program(unused) ==
  /\ Invoked("run", NULL)
  /\ UNCHANGED <<run, instructions, stack, esp, loaded, loads>>
  /\ instr_count' = 0
  /\ IF loaded
       THEN LET r == dbg_run(Runtime) IN
            /\ running' = r.running /\ data' = r.data /\ pc' = r.pc /\ ptr' = r.ptr
            /\ ended' = "none"
            /\ Says(<<>>)
       ELSE /\ Says(<< <<"No brainfuck file specified, use 'file'.">> >>)
            /\ RuntimeUnchanged

\* a run command that does not look at loaded
cmd_run_unchecked(unused) ==
  /\ Invoked("run", NULL)
  /\ UNCHANGED run
  /\ ProgramUnchanged
  /\ LET r == dbg_run(Runtime) IN
     /\ running' = r.running /\ data' = r.data /\ pc' = r.pc /\ ptr' = r.ptr
     /\ ended' = "none"
     /\ Says(<<>>)

cmd_run(unused) ==
  /\ Invoked("run", NULL)
  /\ UNCHANGED run
  /\ ProgramUnchanged
  /\ IF loaded
       THEN LET r == dbg_run(Runtime) IN
            /\ running' = r.running /\ data' = r.data /\ pc' = r.pc /\ ptr' = r.ptr
            /\ ended' = "none"
            /\ Says(<<>>)
       ELSE /\ Says(<< <<"No brainfuck file specified, use 'file'.">> >>)
            /\ RuntimeUnchanged

cmd_next(count) ==
  /\ Invoked("next", count)
  /\ UNCHANGED run
  /\ ProgramUnchanged
  /\ IF running
       THEN IF count # NULL
              THEN LET c == to_int(count, FALSE) IN
                   IF c.ok
                     THEN \E inp \in Inputs, ub \in PastStore :
                            Commit(dbg_next(c.value, StepStart(Runtime, inp), instructions, ub))
                     ELSE Says(c.msgs) /\ RuntimeUnchanged
              ELSE \E inp \in Inputs, ub \in PastStore :
                     Commit(dbg_next(1, StepStart(Runtime, inp), instructions, ub))
       ELSE Says(NotRunning) /\ RuntimeUnchanged

\* a jump command that does not look at running
cmd_jump_unchecked(index) ==
  /\ Invoked("jump", index)
  /\ UNCHANGED run
  /\ ProgramUnchanged
  /\ UNCHANGED <<running, data, ptr, ended>>
  /\ IF index # NULL
       THEN LET i == to_int(index, FALSE) IN
            IF i.ok
              THEN LET j == dbg_jump(pc, i.value, instr_count) IN
                   pc' = j.pc /\ Says(j.msgs)
              ELSE Says(i.msgs) /\ UNCHANGED pc
       ELSE /\ Says(<< <<"error: 'jump' takes exactly one instruction index argument.">> >>)
            /\ UNCHANGED pc

cmd_jump(index) ==
  /\ Invoked("jump", index)
  /\ UNCHANGED run
  /\ ProgramUnchanged
  /\ UNCHANGED <<running, data, ptr, ended>>
  /\ IF running
       THEN IF index # NULL
              THEN LET i == to_int(index, FALSE) IN
                   IF i.ok
                     THEN LET j == dbg_jump(pc, i.value, instr_count) IN
                          pc' = j.pc /\ Says(j.msgs)
                     ELSE Says(i.msgs) /\ UNCHANGED pc
              ELSE /\ Says(<< <<"error: 'jump' takes exactly one instruction index argument.">> >>)
                   /\ UNCHANGED pc
       ELSE Says(NotRunning) /\ UNCHANGED pc

\* a continue command that does not look at running
cmd_continue_unchecked(unused) ==
  /\ Invoked("continue", NULL)
  /\ UNCHANGED run
  /\ ProgramUnchanged
  /\ \E inp \in Inputs, ub \in PastStore :
       Commit(ContinueLoop(StepStart(Runtime, inp), instructions, ub))

cmd_continue(unused) ==
  /\ Invoked("continue", NULL)
  /\ UNCHANGED run
  /\ ProgramUnchanged
  /\ IF running
       THEN \E inp \in Inputs, ub \in PastStore :
              Commit(ContinueLoop(StepStart(Runtime, inp), instructions, ub))
       ELSE Says(NotRunning) /\ RuntimeUnchanged

\* dbg_print_dataptr()
dbg_print_dataptr == << <<"$ptr", ptr>> >>

cmd_dataptr(unused) ==
  /\ Invoked("dataptr", NULL)
  /\ UNCHANGED run
  /\ ProgramUnchanged /\ RuntimeUnchanged
  /\ IF running THEN Says(dbg_print_dataptr) ELSE Says(NotRunning)

\* isprint(c) in the C locale; c is the int value of a 16-bit cell, and for
\* c > 255 the call is outside isprint's domain: either answer (any)
isprint(c, any) == IF c <= 255 THEN c >= 32 /\ c <= 126 ELSE any

\* a print that refuses the last cell of the tape
dbg_print_short(index, any) ==
  IF index < 0 \/ index >= DATA_SIZE - 1
    THEN << <<"Not in range", index, DATA_SIZE>> >>
    ELSE << <<"cell", index, data[index], isprint(data[index], any)>> >>

\* dbg_print(index)
dbg_print(index, any) ==
  IF index < 0 \/ index >= DATA_SIZE
    THEN << <<"Not in range", index, DATA_SIZE>> >>
    ELSE << <<"cell", index, data[index], isprint(data[index], any)>> >>

cmd_print(index) ==
  /\ Invoked("print", index)
  /\ UNCHANGED run
  /\ ProgramUnchanged /\ RuntimeUnchanged
  /\ IF running
       THEN IF index # NULL
              THEN LET i == to_int(index, FALSE) IN
                   IF i.ok
                     THEN \E any \in BOOLEAN : Says(dbg_print(i.value, any))
                     ELSE Says(i.msgs)
              ELSE \E any \in BOOLEAN : Says(dbg_print(ptr, any))
       ELSE Says(NotRunning)

\* dbg_print_tape(): the loop over dptr = from .. 4
RECURSIVE TapeWindow(_)
TapeWindow(dptr) ==
  IF ~(dptr < 5) THEN <<>>
  ELSE LET p == ptr + dptr IN
       (IF p < 0 \/ p >= DATA_SIZE
          THEN <<>>
          ELSE << <<IF dptr = 0 THEN ">>$" ELSE "$", p, data[p]>> >>)
       \o TapeWindow(dptr + 1)

\* a window that starts three cells below the data pointer
dbg_print_tape_narrow == TapeWindow(-3)

dbg_print_tape == TapeWindow(-4)

cmd_tape(unused) ==
  /\ Invoked("tape", NULL)
  /\ UNCHANGED run
  /\ ProgramUnchanged /\ RuntimeUnchanged
  /\ IF running THEN Says(dbg_print_tape) ELSE Says(NotRunning)

(***************************************************************************)
(* parse_command                                                           *)
(***************************************************************************)
\* command_t commands[]: name, abbr and handler
commands ==
  << [name |-> <<"h", "e", "l", "p">>, abbr |-> "h", handler |-> "help"],
     [name |-> <<"q", "u", "i", "t">>, abbr |-> "q", handler |-> "quit"],
     [name |-> <<"f", "i", "l", "e">>, abbr |-> "f", handler |-> "file"],
     [name |-> <<"r", "u", "n">>, abbr |-> "r", handler |-> "run"],
     [name |-> <<"n", "e", "x", "t">>, abbr |-> "n", handler |-> "next"],
     [name |-> <<"j", "u", "m", "p">>, abbr |-> "j", handler |-> "jump"],
     [name |-> <<"c", "o", "n", "t", "i", "n", "u", "e">>, abbr |-> "c", handler |-> "continue"],
     [name |-> <<"d", "a", "t", "a", "p", "t", "r">>, abbr |-> "d", handler |-> "dataptr"],
     [name |-> <<"p", "r", "i", "n", "t">>, abbr |-> "p", handler |-> "print"],
     [name |-> <<"t", "a", "p", "e">>, abbr |-> "t", handler |-> "tape"] >>

command_count == Len(commands)

\* strcmp(split_cmd[0], command.name) == 0 || split_cmd[0][0] == command.abbr
Matches(word, command) == word = command.name \/ word[1] = command.abbr

\* the handlers the loop over commands[] calls for a first word (the initials
\* differ, so at most one)
Called(word) == {commands[i].handler : i \in {k \in 1 .. command_count : Matches(word, commands[k])}}

\* char *arg = (count == 2) ? split_cmd[1] : NULL
Arg(line) == IF Len(line) = 2 THEN line[2] ELSE NULL

\* parse_command(cmd) on a line split into its words (at least one)
parse_command(line) ==
  \/ "help" \in Called(line[1]) /\ cmd_help(Arg(line))
  \/ "quit" \in Called(line[1]) /\ cmd_quit(Arg(line))
  \/ "file" \in Called(line[1]) /\ cmd_file(Arg(line))
  \/ "run" \in Called(line[1]) /\ cmd_run(Arg(line))
  \/ "next" \in Called(line[1]) /\ cmd_next(Arg(line))
  \/ "jump" \in Called(line[1]) /\ cmd_jump(Arg(line))
  \/ "continue" \in Called(line[1]) /\ cmd_continue(Arg(line))
  \/ "dataptr" \in Called(line[1]) /\ cmd_dataptr(Arg(line))
  \/ "print" \in Called(line[1]) /\ cmd_print(Arg(line))
  \/ "tape" \in Called(line[1]) /\ cmd_tape(Arg(line))
  \/ /\ Called(line[1]) = {}
     /\ Invoked("none", NULL)
     /\ Says(<<>>)
     /\ ProgramUnchanged /\ RuntimeUnchanged /\ UNCHANGED run

(***************************************************************************)
(* The command lines explored                                              *)
(***************************************************************************)
Name(handler) == (CHOOSE i \in 1 .. command_count : commands[i].handler = handler)

Word(handler) == commands[Name(handler)].name

\* debugging sessions (Spec): the files above and the commands that drive a run
Lines ==
  {<<Word(h)>> : h \in {"quit", "run", "next", "continue", "file", "jump"}}
  \cup {<<Word("file"), f>> : f \in Programs \cup {NoSuchFile}}
  \cup {<<Word("next"), t>> : t \in {Dec(0), Dec(2), Dec(-1)}}
  \cup {<<Word("jump"), t>> : t \in {Dec(0), Dec(1), Dec(3), Dec(5), Dec(6)}}

\* every command with every kind of argument (SpecCommands), on two files
NextArgs == {Dec(0), Dec(1), Dec(2), Dec(-1), <<"x">>, <<"2", "x">>}
JumpArgs == {Dec(i) : i \in 0 .. 4} \cup {Dec(-1), <<"x">>}
PrintArgs == {Dec(0), Dec(DATA_SIZE - 1), Dec(DATA_SIZE), Dec(-1), <<"x">>}

CommandLines ==
  {<<commands[i].name>> : i \in 1 .. command_count}
  \cup {<< <<commands[i].abbr>> >> : i \in 1 .. command_count}
  \cup {<< <<"n", "o", "p", "e">> >>, << <<"x">> >>}
  \cup {<<Word("file"), f>> : f \in {<<",", ".">>, <<">", "<", "<">>, NoSuchFile}}
  \cup {<<Word("next"), t>> : t \in NextArgs}
  \cup {<<Word("jump"), t>> : t \in JumpArgs}
  \cup {<<Word("print"), t>> : t \in PrintArgs}
  \cup {<<Word("next"), Dec(1), Dec(1)>>}

(***************************************************************************)
(* The debugger                                                            *)
(***************************************************************************)
\* the globals as initialized: program, run, loaded, runtime (static storage is zero)
Init ==
  /\ instructions = [i \in Slots |-> [operator |-> 0, operand |-> 0]]
  /\ instr_count = 0
  /\ stack = [i \in 0 .. (STACK_SIZE - 1) |-> 0]
  /\ esp = 0
  /\ run = TRUE
  /\ loaded = FALSE
  /\ running = FALSE
  /\ data = [i \in Cells |-> 0]
  /\ pc = 0
  /\ ptr = 0
  /\ report = <<>>
  /\ output = <<>>
  /\ last = [handler |-> "none", arg |-> NULL, running |-> FALSE, loaded |-> FALSE]
  /\ loads = 0
  /\ ended = "none"

\* One turn of main's loop, while (run) { ... parse_command(buf); }, named by the
\* handler the line reaches
Help(L) == run /\ \E line \in L : "help" \in Called(line[1]) /\ parse_command(line)

Quit(L) == run /\ \E line \in L : "quit" \in Called(line[1]) /\ parse_command(line)

File(L) == run /\ \E line \in L : "file" \in Called(line[1]) /\ parse_command(line)

Run(L) == run /\ \E line \in L : "run" \in Called(line[1]) /\ parse_command(line)

Step(L) == run /\ \E line \in L : "next" \in Called(line[1]) /\ parse_command(line)

Jump(L) == run /\ \E line \in L : "jump" \in Called(line[1]) /\ parse_command(line)

Continue(L) == run /\ \E line \in L : "continue" \in Called(line[1]) /\ parse_command(line)

Dataptr(L) == run /\ \E line \in L : "dataptr" \in Called(line[1]) /\ parse_command(line)

PrintCell(L) == run /\ \E line \in L : "print" \in Called(line[1]) /\ parse_command(line)

Tape(L) == run /\ \E line \in L : "tape" \in Called(line[1]) /\ parse_command(line)

Unknown(L) == run /\ \E line \in L : Called(line[1]) = {} /\ parse_command(line)

Next ==
  \/ Quit(Lines)
  \/ File(Lines)
  \/ Run(Lines)
  \/ Step(Lines)
  \/ Jump(Lines)
  \/ Continue(Lines)

Spec == Init /\ [][Next]_vars

NextCommands ==
  \/ Help(CommandLines)
  \/ Quit(CommandLines)
  \/ File(CommandLines)
  \/ Run(CommandLines)
  \/ Step(CommandLines)
  \/ Jump(CommandLines)
  \/ Continue(CommandLines)
  \/ Dataptr(CommandLines)
  \/ PrintCell(CommandLines)
  \/ Tape(CommandLines)
  \/ Unknown(CommandLines)

SpecCommands == Init /\ [][NextCommands]_vars

\* loading files only (SpecCompile): any number of loads that leave brackets
\* pending, then one load of any short source text
Preludes == {<<"[">>, <<"+", "[">>, <<"[", "[">>}

NextCompile ==
  /\ run
  /\ last.arg \in Preludes \cup {NULL}
  /\ \E f \in AllSources \cup EdgeSources \cup {NoSuchFile} : cmd_file(f)

SpecCompile == Init /\ [][NextCompile]_vars

\* one program stepped through (SpecScenario): the file '++>+<-.', with single
\* steps, steps of seven, jumps and continue
Scenario == <<"+", "+", ">", "+", "<", "-", ".">>

ScenarioLines ==
  {<<Word(h)>> : h \in {"quit", "run", "next", "continue"}}
  \cup {<<Word("file"), Scenario>>, <<Word("next"), Dec(7)>>}
  \cup {<<Word("jump"), Dec(i)>> : i \in {1, 3, 7, 8}}

NextScenario ==
  \/ Quit(ScenarioLines)
  \/ File(ScenarioLines)
  \/ Run(ScenarioLines)
  \/ Step(ScenarioLines)
  \/ Jump(ScenarioLines)
  \/ Continue(ScenarioLines)

SpecScenario == Init /\ [][NextScenario]_vars

\* one loop stepped through (SpecLoop): the file '+[-]'
LoopSource == <<"+", "[", "-", "]">>

LoopLines ==
  {<<Word(h)>> : h \in {"quit", "run", "next", "continue", "dataptr", "print", "tape"}}
  \cup {<<Word("file"), LoopSource>>, <<Word("next"), Dec(2)>>}
  \cup {<<Word("jump"), Dec(i)>> : i \in 1 .. 5}

NextLoopSession ==
  \/ Quit(LoopLines)
  \/ File(LoopLines)
  \/ Run(LoopLines)
  \/ Step(LoopLines)
  \/ Jump(LoopLines)
  \/ Continue(LoopLines)
  \/ Dataptr(LoopLines)
  \/ PrintCell(LoopLines)
  \/ Tape(LoopLines)

SpecLoop == Init /\ [][NextLoopSession]_vars

\* the tape looked at along one run (SpecTape): the file '+>+>>>>' moves the
\* data pointer from the first cell to cell 5
TapeSource == <<"+", ">", "+", ">", ">", ">", ">">>

TapeLines ==
  {<<Word(h)>> : h \in {"quit", "run", "next", "tape"}}
  \cup {<<Word("file"), TapeSource>>}
  \cup {<<Word("jump"), Dec(i)>> : i \in {2, 4}}

NextTape ==
  \/ Quit(TapeLines)
  \/ File(TapeLines)
  \/ Run(TapeLines)
  \/ Step(TapeLines)
  \/ Jump(TapeLines)
  \/ Tape(TapeLines)

SpecTape == Init /\ [][NextTape]_vars

\* first words that are neither a command's name nor its single initial
\* letter (SpecWords): parse_command's loop compares split_cmd[0][0] only
OtherWords ==
  {<<"n", "o", "p", "e">>, <<"q", "u", "u", "x">>, <<"r", "u", "n", "s">>,
   <<"f", "i", "l", "e", "s">>, <<"c", "d">>, <<"j", "p">>, <<"x">>}

WordLines ==
  {<<w>> : w \in OtherWords}
  \cup {<<w, f>> : w \in OtherWords, f \in {<<",", ".">>, <<">", "<", "<">>}}
  \cup {<<w, Dec(2)>> : w \in OtherWords}

NextWords ==
  \/ Quit(WordLines)
  \/ File(WordLines)
  \/ Run(WordLines)
  \/ Step(WordLines)
  \/ Jump(WordLines)
  \/ Continue(WordLines)
  \/ Unknown(WordLines)

SpecWords == Init /\ [][NextWords]_vars

\* a session that loads a source with a pending '[' and then one with a ']'
\* (SpecPending): compile() keeps prog->stack and prog->esp between loads
PendingSource == <<"+", "+", "+", "[">>

ClosingSource == <<"+", "]">>

PendingLines ==
  {<<Word(h)>> : h \in {"quit", "run", "next", "continue"}}
  \cup {<<Word("file"), f>> : f \in {PendingSource, ClosingSource}}
  \cup {<<Word("jump"), Dec(i)>> : i \in 1 .. 4}

NextPending ==
  \/ Quit(PendingLines)
  \/ File(PendingLines)
  \/ Run(PendingLines)
  \/ Step(PendingLines)
  \/ Jump(PendingLines)
  \/ Continue(PendingLines)

SpecPending == Init /\ [][NextPending]_vars

(***************************************************************************)
(* Properties                                                              *)
(***************************************************************************)
\* the program store and the runtime, without the bookkeeping of the model
program == <<instructions, instr_count, stack, esp>>
runtime == <<running, data, pc, ptr>>

IsSource(f) == f # NULL /\ f # NoSuchFile

\* the last command was `file` on a readable file: its text went through compile
Compiled == last.handler = "file" /\ IsSource(last.arg)

IsGlyph(c) == c \in {">", "<", "+", "-", ".", ",", "[", "]"}

\* the instruction slot of the character at position i of a source
SlotOf(src, i) == Cardinality({m \in 1 .. (i - 1) : IsGlyph(src[m])})

\* open brackets minus close brackets among the first i characters
Depth(src, i) ==
  Cardinality({m \in 1 .. i : src[m] = "["}) - Cardinality({m \in 1 .. i : src[m] = "]"})

Balanced(src) ==
  /\ \A i \in 1 .. Len(src) : Depth(src, i) >= 0
  /\ Depth(src, Len(src)) = 0

\* the position of the ']' that closes the '[' at position i of a balanced source
MatchOf(src, i) ==
  CHOOSE k \in (i + 1) .. Len(src) :
    /\ Depth(src, k) = Depth(src, i) - 1
    /\ \A m \in (i + 1) .. (k - 1) : Depth(src, m) >= Depth(src, i)

\* the program store as it is before anything was loaded
FreshInstructions == [i \in Slots |-> [operator |-> 0, operand |-> 0]]
FreshStack == [i \in 0 .. (STACK_SIZE - 1) |-> 0]

\* what the `file` command prints around the compiler's messages
LoadReport(c) ==
  << <<"Reading">> >> \o c.msgs \o (IF c.ok THEN <<>> ELSE << <<"Could not read from">> >>)

\* C1: in every accepted (balanced) source each '[' slot j holds JumpIfZero with
\* the slot k of its matching ']' as operand, and slot k holds JumpIfNonZero
\* with operand j.
C1_BracketPairing ==
  (Compiled /\ loaded /\ Balanced(last.arg)) =>
    \A i \in 1 .. Len(last.arg) :
      last.arg[i] = "[" =>
        LET j == SlotOf(last.arg, i)
            k == SlotOf(last.arg, MatchOf(last.arg, i))
        IN /\ instructions[j] = [operator |-> OP_JMP, operand |-> k]
           /\ instructions[k] = [operator |-> OP_RET, operand |-> j]

\* C2: whatever was loaded before, loading a source with unbalanced brackets
\* fails and leaves loaded = false.
C2_UnbalancedRejected ==
  (Compiled /\ ~Balanced(last.arg)) => ~loaded

\* C3: the outcome of loading a source (success or the error reported, and on
\* success the instructions in slots 0..instr_count-1 and instr_count) is the one
\* the same source gets on a fresh program store, whatever was loaded before.
C3_CompileOfSourceAlone ==
  Compiled =>
    LET c == compile(last.arg, FreshInstructions, FreshStack, 0, 0) IN
    /\ loaded = c.ok
    /\ report = LoadReport(c)
    /\ c.ok => /\ instr_count = c.count
               /\ \A i \in 0 .. (c.count - 1) : instructions[i] = c.ins[i]

\* the last command was a load (dbg_load was called) and it reported a failure
LoadFailed ==
  /\ last.handler = "file" /\ last.arg # NULL
  /\ report[Len(report)] \in {<<"No such file or directory.">>, <<"Could not read from">>}

\* C4: after a load that fails (the file cannot be opened, or compilation fails)
\* loaded = false and running = false.
C4_FailedLoadUnloads == LoadFailed => (~loaded /\ ~running)

\* C5: every load, whatever its outcome, leaves running = false, and a load that
\* reports no error leaves loaded = true.
C5_LoadEndsRun ==
  (last.handler = "file" /\ last.arg # NULL) =>
    /\ ~running
    /\ report = << <<"Reading">> >> => loaded

\* a file was loaded successfully while a run was in progress
C5_Witness ==
  /\ last.handler = "file" /\ IsSource(last.arg) /\ last.running
  /\ ended = "load" /\ loaded /\ ~running

\* C6: running implies loaded in every state; loaded becomes true only by a
\* successful compile, running becomes true only by run issued while loaded, and
\* loaded never becomes false while running stays true.
C6_RunningImpliesLoaded ==
  /\ [](running => loaded)
  /\ [][/\ (~loaded /\ loaded') => (last'.handler = "file" /\ report' = << <<"Reading">> >>)
        /\ (~running /\ running') => (last'.handler = "run" /\ loaded)
        /\ (loaded /\ ~loaded') => ~running']_vars

\* a run started on a loaded program
C6_Witness == running /\ loaded /\ last.handler = "run" /\ ~last.running

AllZero == [i \in Cells |-> 0]

\* C7: run while loaded zeroes the tape, resets pc and ptr and sets running;
\* run while not loaded changes nothing.
C7_RunResets ==
  [][last'.handler = "run" =>
       IF loaded
         THEN running' /\ pc' = 0 /\ ptr' = 0 /\ data' = AllZero
         ELSE UNCHANGED <<program, loaded, runtime>>]_vars

\* run issued in the middle of a run that had moved on and written to the tape:
\* everything is back at the start
C7_Witness ==
  /\ last.handler = "run" /\ last.running /\ last.loaded
  /\ running /\ pc = 0 /\ ptr = 0 /\ data = AllZero

\* one instruction stepped by `next` without a count, in a running session
SingleStep(op) ==
  /\ last'.handler = "next" /\ last'.arg = NULL /\ running
  /\ pc < PROGRAM_SIZE /\ instructions[pc].operator = op

\* the command ended with the given runtime error
Faulted(what) ==
  /\ ~running'
  /\ report' # <<>> /\ report'[1][1] = "Runtime error" /\ report'[1][2] = what

\* C8: DecPtr faults at ptr = 0 and otherwise gives ptr - 1; IncPtr faults at
\* ptr = DATA_SIZE - 1 and otherwise gives ptr + 1.
C8_PointerEdges ==
  [][/\ SingleStep(OP_DEC) =>
          IF ptr = 0 THEN Faulted("decrement below 0") /\ ptr' = ptr
                     ELSE ptr' = ptr - 1 /\ running' /\ report' = <<>>
     /\ SingleStep(OP_INC) =>
          IF ptr = DATA_SIZE - 1 THEN Faulted("increment out of range") /\ ptr' = ptr
                                 ELSE ptr' = ptr + 1 /\ running' /\ report' = <<>>]_vars

\* IncPtr stepped at the last cell: the overflow fault
C8_Witness ==
  /\ last.handler = "next" /\ last.arg = NULL /\ last.running
  /\ ~running /\ ended = "error" /\ ptr = DATA_SIZE - 1
  /\ report[1][2] = "increment out of range"

\* C9: a fault is reported against the instruction pc points to when the command
\* returns, which is the pointer move that caused it, with the 1-based index
\* pc + 1, ptr and the current cell; a single step that faults leaves pc, ptr and
\* the tape as they were.
C9_FaultLeavesState ==
  [][(report' # <<>> /\ report'[1][1] = "Runtime error") =>
       /\ pc' < PROGRAM_SIZE
       /\ report'[1][3] = pc' + 1
       /\ report'[1][4] = INSTRUCTIONS(instructions[pc'].operator)
       /\ report'[1][5] = ptr'
       /\ report'[1][6] = data'[ptr']
       /\ \/ instructions[pc'].operator = OP_DEC /\ ptr' = 0
          \/ instructions[pc'].operator = OP_INC /\ ptr' = DATA_SIZE - 1
       /\ (last'.handler = "next" /\ last'.arg = NULL) =>
            (pc' = pc /\ ptr' = ptr /\ data' = data)]_vars

\* `continue` on '><<' from run: the report names instruction 3, data pointer 0
C9_Witness ==
  /\ last.handler = "continue"
  /\ report[1] = <<"Runtime error", "decrement below 0", 3, "<", 0, 0>>
  /\ pc = 2 /\ ptr = 0

\* C10: a fault leaves running = false; while not running next, jump and
\* continue are rejected and change nothing; only run sets running again.
C10_RejectedAfterFault ==
  /\ []((report # <<>> /\ report[1][1] = "Runtime error") => (~running /\ ended = "error"))
  /\ [][/\ (~running /\ last'.handler \in {"next", "jump", "continue"}) =>
             (report' = NotRunning /\ UNCHANGED <<program, loaded, runtime, ended>>)
        /\ (~running /\ running') => last'.handler = "run"]_vars

\* `continue` refused in a session a fault has stopped
C10_Witness ==
  /\ ended = "error" /\ ~running /\ loaded
  /\ last.handler = "continue" /\ report = NotRunning

\* k single instructions from the stepping state acc, one dbg_interpret call
\* each, stopping after the first call that halts or faults
RECURSIVE Repeat(_, _, _, _)
Repeat(k, acc, ins, ub) ==
  IF k = 0 \/ acc.ret THEN acc
  ELSE LET r == dbg_interpret(acc.rt, Fetch(ins, acc.rt.pc, ub), ins, ub, acc.inp) IN
       Repeat(k - 1,
              [rt |-> r.rt, ret |-> r.ret, msgs |-> acc.msgs \o r.msgs,
               out |-> acc.out \o r.out, inp |-> r.inp,
               steps |-> acc.steps + 1, over |-> FALSE],
              ins, ub)

\* the count a `next` argument stands for: none is 1, else its decimal value
IsCount(arg) == arg = NULL \/ \E n \in 0 .. MaxSteps : arg = Dec(n)
CountOf(arg) == IF arg = NULL THEN 1 ELSE CHOOSE n \in 0 .. MaxSteps : arg = Dec(n)

\* the operators that neither jump, halt nor are unknown to the interpreter
Plain == {OP_INC, OP_DEC, OP_ADD, OP_SUB, OP_OUT, OP_IN}

\* the runtime after the command is that of the stepping state a
Reaches(a) ==
  /\ running' = a.rt.running /\ data' = a.rt.data /\ pc' = a.rt.pc /\ ptr' = a.rt.ptr
  /\ output' = a.out

\* C11: while running, next(0) executes nothing and leaves pc, ptr and the tape
\* unchanged; next(k) executes min(k, steps until the first halt or fault)
\* instructions, stopping at the first step that halts or faults; over k
\* straight-line instructions without a fault pc advances by k.
C11_NextCount ==
  [][(last'.handler = "next" /\ running /\ IsCount(last'.arg)) =>
       LET k == CountOf(last'.arg) IN
       /\ k = 0 => UNCHANGED <<runtime, program, loaded>>
       /\ \E inp \in Inputs, ub \in PastStore :
            LET a == Repeat(k, StepStart(Runtime, inp), instructions, ub) IN
            /\ Reaches(a)
            /\ a.steps <= k
            /\ a.steps < k => (a.ret /\ ~running')
            /\ \A n \in 0 .. (a.steps - 1) :
                 Repeat(n, StepStart(Runtime, inp), instructions, ub).rt.running
       /\ (running' /\ \A n \in 0 .. (k - 1) :
                         pc + n < PROGRAM_SIZE /\ instructions[pc + n].operator \in Plain)
            => pc' = pc + k]_vars

\* next 2 on '<' from run: the first step faults and the second is not executed
C11_Witness ==
  /\ last.handler = "next" /\ last.arg = Dec(2) /\ last.running
  /\ ended = "error" /\ ~running /\ pc = 0
  /\ report[1][1] = "Runtime error"

\* the 1-based instruction index a `jump` argument stands for
IsIndex(arg) == \E n \in 0 .. (PROGRAM_SIZE + 1) : arg = Dec(n)
IndexOf(arg) == CHOOSE n \in 0 .. (PROGRAM_SIZE + 1) : arg = Dec(n)

\* the index is one dbg_jump accepts for the program loaded
InRange(i) == 1 <= i /\ i <= instr_count

\* C12: while running, jump(i) with 1 <= i <= instr_count sets pc to i - 1 and
\* changes nothing else, executing no instruction; the next single step then
\* executes the instruction at 1-based index i.
C12_JumpSetsPc ==
  [][/\ (last'.handler = "jump" /\ running /\ IsIndex(last'.arg)
           /\ InRange(IndexOf(last'.arg))) =>
          /\ pc' = IndexOf(last'.arg) - 1
          /\ UNCHANGED <<running, data, ptr, loaded, program>>
          /\ output' = <<>> /\ report' = <<>>
     /\ (last.handler = "jump" /\ last.running /\ IsIndex(last.arg)
           /\ InRange(IndexOf(last.arg))
           /\ last'.handler = "next" /\ last'.arg = NULL) =>
          \E inp \in Inputs, ub \in PastStore :
            LET i == IndexOf(last.arg)
                r == dbg_interpret([Runtime EXCEPT !.pc = i - 1], instructions[i - 1],
                                   instructions, ub, inp)
            IN Reaches([rt |-> r.rt, out |-> r.out])]_vars

\* jump 3 in the middle of a run of '+[-]' that has written to the tape
C12_Witness ==
  /\ last.handler = "jump" /\ last.arg = Dec(3) /\ last.running
  /\ running /\ pc = 2 /\ data # AllZero /\ report = <<>>

\* the integer a decimal argument, with or without a sign, stands for
IsInt(arg) == \E n \in (0 - PROGRAM_SIZE - 1) .. (PROGRAM_SIZE + 1) : arg = Dec(n)
IntOf(arg) == CHOOSE n \in (0 - PROGRAM_SIZE - 1) .. (PROGRAM_SIZE + 1) : arg = Dec(n)

\* C13: while running, jump(i) with i < 1 or i > instr_count is rejected with a
\* message and leaves pc and all other state unchanged; every i from 1 to
\* instr_count, the first instruction and the End included, is accepted.
C13_JumpRange ==
  [][(last'.handler = "jump" /\ running /\ IsInt(last'.arg)) =>
       LET i == IntOf(last'.arg) IN
       IF InRange(i)
         THEN report' = <<>> /\ pc' = i - 1
         ELSE report' # <<>> /\ UNCHANGED <<runtime, program, loaded>>]_vars

\* jump to instr_count + 1 in the middle of a run: refused, pc stays
C13_Witness ==
  /\ last.handler = "jump" /\ last.running /\ last.arg = Dec(instr_count + 1)
  /\ report = << <<"Not in range of program's instructions", instr_count + 1, instr_count>> >>
  /\ running /\ pc > 0

\* C14: continue issued while running has the effect of repeating single steps
\* until the first one that halts or faults: it stops at that step with
\* running = false, and tape, ptr, pc and the bytes written are those of the
\* repeated single steps.
C14_ContinueIsRepeatedNext ==
  [][(last'.handler = "continue" /\ running) =>
       /\ ~running'
       /\ \E inp \in Inputs, ub \in PastStore :
            LET a == Repeat(MaxSteps, StepStart(Runtime, inp), instructions, ub) IN
            /\ a.ret
            /\ \A n \in 0 .. (a.steps - 1) :
                 Repeat(n, StepStart(Runtime, inp), instructions, ub).rt.running
            /\ Reaches(a)
            /\ report' = a.msgs]_vars

\* continue from run on ',.': three steps, one byte written, halted at End
C14_Witness ==
  /\ last.handler = "continue" /\ last.running
  /\ ended = "normal" /\ ~running /\ pc = 2 /\ Len(output) = 1

\* the commands that need a run in progress
NeedRunning == {"next", "jump", "continue", "dataptr", "print", "tape"}

\* C15: next, jump, continue, dataptr, print and tape issued while not running,
\* and run issued while not loaded, are answered with a message and leave
\* loaded, running, pc, ptr, the tape and the program exactly as they were.
C15_WrongStateNoChange ==
  [][/\ (~running /\ last'.handler \in NeedRunning) =>
          (report' = NotRunning /\ UNCHANGED <<program, loaded, runtime>>)
     /\ (~loaded /\ last'.handler = "run") =>
          (report' # <<>> /\ UNCHANGED <<program, loaded, runtime>>)]_vars

\* `jump 1` after a run has ended away from the first instruction, with the
\* tape written: refused, nothing moves
C15_Witness ==
  /\ last.handler = "jump" /\ last.arg = Dec(1) /\ ~last.running /\ last.loaded
  /\ report = NotRunning /\ pc > 0 /\ data # AllZero

\* the operators of '++>+<-.' in order, and the End after them
ScenarioOps == <<OP_ADD, OP_ADD, OP_INC, OP_ADD, OP_DEC, OP_SUB, OP_OUT, OP_END>>

ScenarioLoaded ==
  /\ loaded /\ instr_count = 8
  /\ \A i \in 0 .. 7 : instructions[i].operator = ScenarioOps[i + 1]

\* C16: '++>+<-.' compiles to 7 instructions plus End (instr_count = 8); after
\* run and next 7 the tape is 1, 1, 0, ..., ptr = 0, exactly one byte of value 1
\* has been written, pc points at End and running is still true.
C16_Scenario ==
  /\ []((Compiled /\ last.arg = Scenario) => ScenarioLoaded)
  /\ [][(last.handler = "run" /\ running /\ ScenarioLoaded
           /\ last'.handler = "next" /\ last'.arg = Dec(7)) =>
          /\ data' = [i \in Cells |-> IF i <= 1 THEN 1 ELSE 0]
          /\ ptr' = 0
          /\ output' = <<1>>
          /\ pc' = 7 /\ instructions[pc'].operator = OP_END
          /\ running' /\ report' = <<>>]_vars

\* next 7 issued right after run has brought the program in front of its End
C16_Witness ==
  /\ last.handler = "next" /\ last.arg = Dec(7) /\ last.running
  /\ ScenarioLoaded /\ running /\ pc = 7 /\ ptr = 0
  /\ data[0] = 1 /\ data[1] = 1 /\ output = <<1>>

\* the first load of a session: the program store is as initialized
FirstLoad == Compiled /\ loads = 1

\* the source ends with a '[' still open, no ']' came without its '[', and
\* neither the bracket stack nor the instruction store overflows
PendingOpen(src) ==
  /\ \A i \in 1 .. Len(src) : Depth(src, i) >= 0 /\ Depth(src, i) <= STACK_SIZE
  /\ Depth(src, Len(src)) > 0
  /\ SlotOf(src, Len(src) + 1) < PROGRAM_SIZE

\* C17: a source that reaches end of input with a '[' still open fails to
\* compile and the failure is reported as a compile error with a 1-based source
\* position; for the source '[' the position is line 1, column 1.
C17_UnmatchedOpenReported ==
  (FirstLoad /\ PendingOpen(last.arg)) =>
    /\ ~loaded
    /\ \E n \in 1 .. Len(report) :
         /\ report[n][1] = "compile_error"
         /\ report[n][2] >= 1 /\ report[n][3] >= 1
         /\ last.arg = <<"[">> => (report[n][2] = 1 /\ report[n][3] = 1)

\* the operator the spec gives each glyph
OperatorOf(c) ==
  CASE c = ">" -> OP_INC
    [] c = "<" -> OP_DEC
    [] c = "+" -> OP_ADD
    [] c = "-" -> OP_SUB
    [] c = "." -> OP_OUT
    [] c = "," -> OP_IN
    [] c = "[" -> OP_JMP
    [] c = "]" -> OP_RET

\* C18: after a successful compile slot k holds the operator of the k-th glyph of
\* the source ('[' JumpIfZero, ']' JumpIfNonZero, ...); any other character
\* takes no slot.
C18_SlotPerGlyph ==
  (FirstLoad /\ loaded) =>
    \A i \in 1 .. Len(last.arg) :
      IsGlyph(last.arg[i]) =>
        instructions[SlotOf(last.arg, i)].operator = OperatorOf(last.arg[i])

\* the number of glyphs in a source
Glyphs(src) == SlotOf(src, Len(src) + 1)

\* C19: after every successful compile instr_count is the number of glyphs plus
\* one, slot instr_count - 1 holds End and no slot below it holds End.
C19_OneEnd ==
  (Compiled /\ loaded) =>
    /\ instr_count = Glyphs(last.arg) + 1
    /\ instructions[instr_count - 1].operator = OP_END
    /\ \A i \in 0 .. (instr_count - 2) : instructions[i].operator # OP_END

\* C20: whenever loaded is true every slot 0 .. instr_count - 1 holds one of the
\* nine operators End .. JumpIfNonZero.
C20_OperatorsAreVariants ==
  loaded => \A i \in 0 .. (instr_count - 1) : instructions[i].operator \in OP_END .. OP_RET

\* a single step, in a run of the loaded file '+[-]', of the instruction
\* compiled from the character at position i of the source
StepsAt(i) ==
  /\ loaded /\ running /\ instr_count = Glyphs(LoopSource) + 1
  /\ pc = SlotOf(LoopSource, i)
  /\ last'.handler = "next" /\ last'.arg = NULL

\* the step moved pc to slot `to` and changed nothing else, without a fault
OnlyPc(to) ==
  /\ pc' = to
  /\ data' = data /\ ptr' = ptr /\ running' /\ report' = <<>>

\* C21: stepping the '[' at slot j whose ']' is at slot k moves pc to k + 1 when
\* the current cell is 0 and to j + 1 otherwise; tape and ptr are unchanged and
\* no fault is raised.
C21_OpenBracketStep ==
  [][\A i \in 1 .. Len(LoopSource) :
       (LoopSource[i] = "[" /\ StepsAt(i)) =>
         LET j == SlotOf(LoopSource, i)
             k == SlotOf(LoopSource, MatchOf(LoopSource, i))
         IN OnlyPc(IF data[ptr] = 0 THEN k + 1 ELSE j + 1)]_vars

\* the position of the '[' that the ']' at position i of a balanced source closes
OpenOf(src, i) == CHOOSE m \in 1 .. (i - 1) : src[m] = "[" /\ MatchOf(src, m) = i

\* C22: stepping the ']' at slot k whose '[' is at slot j moves pc to j + 1 when
\* the current cell is non-zero and to k + 1 when it is 0; tape and ptr are
\* unchanged.
C22_CloseBracketStep ==
  [][\A i \in 1 .. Len(LoopSource) :
       (LoopSource[i] = "]" /\ StepsAt(i)) =>
         LET k == SlotOf(LoopSource, i)
             j == SlotOf(LoopSource, OpenOf(LoopSource, i))
         IN OnlyPc(IF data[ptr] # 0 THEN j + 1 ELSE k + 1)]_vars

\* a single step has left the loop of '+[-]' through its ']' on a zero cell
C22_Witness ==
  /\ last.handler = "next" /\ last.arg = NULL /\ last.running
  /\ loaded /\ instr_count = Glyphs(LoopSource) + 1
  /\ running /\ pc = SlotOf(LoopSource, Len(LoopSource)) + 1 /\ data[ptr] = 0

\* C23: stepping End while running sets running = false and leaves pc, ptr and
\* the tape unchanged, with no fault; from then on next, jump and continue are
\* rejected, changing nothing, until run is issued again.
C23_EndHalts ==
  /\ [](ended = "normal" => ~running)
  /\ [][/\ (running /\ pc < PROGRAM_SIZE /\ instructions[pc].operator = OP_END
              /\ last'.handler = "next" /\ last'.arg = NULL) =>
             /\ ~running' /\ UNCHANGED <<pc, ptr, data>>
             /\ report' = << <<"Brainfuck exited normally.">> >>
             /\ ended' = "normal"
        /\ (ended = "normal" /\ last'.handler \in {"next", "jump", "continue"}) =>
             (report' = NotRunning /\ UNCHANGED <<program, loaded, runtime, ended>>)
        /\ (ended = "normal" /\ ended' # "normal") => (last'.handler = "run" /\ running')]_vars

\* `jump` refused in a session that End has halted
C23_Witness ==
  /\ ended = "normal" /\ ~running /\ loaded
  /\ last.handler = "jump" /\ last.arg = Dec(1) /\ report = NotRunning /\ pc > 0

\* a single step, while running, of an instruction with operator op
Steps(op) ==
  /\ running /\ pc < PROGRAM_SIZE /\ instructions[pc].operator = op
  /\ last'.handler = "next" /\ last'.arg = NULL

\* the step wrote v to the current cell and moved pc on by one: nothing else
\* changed, no fault, the run goes on
Wrote(v) ==
  /\ data' = [data EXCEPT ![ptr] = v]
  /\ pc' = pc + 1 /\ ptr' = ptr /\ running' /\ report' = <<>> /\ output' = <<>>

\* C24: IncCell and DecCell wrap modulo 2^16: IncCell on 65535 gives 0, DecCell
\* on 0 gives 65535; neither faults or stops the run, and pc advances by one.
C24_CellWraps ==
  [][/\ Steps(OP_ADD) => Wrote(IF data[ptr] = USHORT_MOD - 1 THEN 0 ELSE data[ptr] + 1)
     /\ Steps(OP_SUB) => Wrote(IF data[ptr] = 0 THEN USHORT_MOD - 1 ELSE data[ptr] - 1)]_vars

\* DecCell stepped on a zero cell: the cell holds 65535 and the run goes on
C24_Witness ==
  /\ last.handler = "next" /\ last.arg = NULL /\ last.running
  /\ running /\ data[ptr] = USHORT_MOD - 1
  /\ pc > 0 /\ instructions[pc - 1].operator = OP_SUB

\* the deepest nesting of open brackets in a source
MaxDepth(src) == IF src = <<>> THEN 0 ELSE
  CHOOSE d \in 0 .. Len(src) :
    /\ \A i \in 1 .. Len(src) : Depth(src, i) <= d
    /\ d = 0 \/ \E i \in 1 .. Len(src) : Depth(src, i) = d

\* compile, started with e entries pending on the bracket stack, reads the
\* character at position i of the source without having raised an error
ReadsUpTo(src, i, e) ==
  /\ i \in 1 .. Len(src)
  /\ SlotOf(src, i) < PROGRAM_SIZE
  /\ \A m \in 1 .. (i - 1) :
       /\ src[m] = "]" => e + Depth(src, m - 1) > 0
       /\ src[m] = "[" => e + Depth(src, m - 1) < STACK_SIZE

\* the load printed this compile error (after 'Reading') and failed
CompileFailed(what) ==
  /\ ~loaded'
  /\ Len(report') = 4
  /\ report'[2][1] = "compile_error" /\ report'[2][4] = what

Stores(src, i, e) ==
  /\ i \in 1 .. Len(src) /\ IsGlyph(src[i])
  /\ \A m \in 1 .. i :
       /\ src[m] = "]" => e + Depth(src, m - 1) > 0
       /\ src[m] = "[" => e + Depth(src, m - 1) < STACK_SIZE

Newlines(src, n) == Cardinality({m \in 1 .. n : src[m] = "\n"})
LastNewline(src, n) ==
  IF Newlines(src, n) = 0 THEN 0
  ELSE CHOOSE m \in 1 .. n : src[m] = "\n" /\ \A k \in (m + 1) .. n : src[k] # "\n"

\* compile, started with e entries pending, raises its error at position i
UnmatchedAt(src, i, e) ==
  ReadsUpTo(src, i, e) /\ src[i] = "]" /\ e + Depth(src, i - 1) = 0
OverflowAt(src, i, e) ==
  ReadsUpTo(src, i, e) /\ src[i] = "[" /\ e + Depth(src, i - 1) = STACK_SIZE

\* C27: a compile error raised at a character (an unmatched ']' or a '[' that
\* overflows the stack) is reported with line = 1 + the newlines before that
\* character and column = 1 + the characters, glyphs or not, since the last
\* newline.
C27_ErrorPosition ==
  [][(last'.handler = "file" /\ IsSource(last'.arg)) =>
       LET src == last'.arg IN
       \A i \in 1 .. Len(src) :
         (UnmatchedAt(src, i, esp) \/ OverflowAt(src, i, esp)) =>
           /\ ~loaded'
           /\ report'[2] = <<"compile_error",
                             1 + Newlines(src, i - 1),
                             i - LastNewline(src, i - 1),
                             IF src[i] = "]" THEN "unmatched ]"
                                             ELSE "loop count exceeds capacity">>]_vars

\* an unmatched ']' behind a newline and a character that is no glyph: 2:2
C27_Witness ==
  /\ FirstLoad /\ last.arg = <<"\n", "x", "]">> /\ ~loaded
  /\ report[2] = <<"compile_error", 2, 2, "unmatched ]">>

\* the argument is a count: a non-empty string of decimal digits
IsNumeral(arg) ==
  arg # NULL /\ Len(arg) > 0 /\ \A i \in 1 .. Len(arg) : arg[i] \in {Digit(n) : n \in 0 .. 9}

\* C28: next with a negative count, or with a count that is not a number,
\* executes no instruction: running, pc, ptr and the tape are unchanged and
\* nothing is written.
C28_BadCountNoStep ==
  [][(running /\ last'.handler = "next" /\ last'.arg # NULL /\ ~IsNumeral(last'.arg)) =>
       (UNCHANGED <<running, pc, ptr, data>> /\ output' = <<>>)]_vars

\* the command printed cell i with its value
Printed(i) ==
  /\ Len(report') = 1
  /\ report'[1][1] = "cell" /\ report'[1][2] = i /\ report'[1][3] = data[i]

\* C29: while running, print with an index shows tape[index] exactly when
\* 0 <= index < DATA_SIZE and is rejected otherwise; print without an index
\* shows the cell at ptr; print, dataptr and tape never change the tape, ptr,
\* pc, running or loaded.
C29_PrintCell ==
  [][/\ (running /\ last'.handler = "print" /\ IsInt(last'.arg)) =>
          LET i == IntOf(last'.arg) IN
          IF 0 <= i /\ i < DATA_SIZE
            THEN Printed(i)
            ELSE report' # <<>> /\ report'[1][1] # "cell"
     /\ (running /\ last'.handler = "print" /\ last'.arg = NULL) => Printed(ptr)
     /\ last'.handler \in {"print", "dataptr", "tape"} =>
          UNCHANGED <<program, loaded, runtime>>]_vars

\* print 0 in a run that has written to cell 0
C29_Witness ==
  /\ last.handler = "print" /\ last.arg = Dec(0) /\ last.running
  /\ data[0] # 0 /\ Len(report) = 1
  /\ report[1][1] = "cell" /\ report[1][2] = 0 /\ report[1][3] = data[0]

\* the ends of the window of the tape command around the data pointer
WindowLow == IF ptr - 4 < 0 THEN 0 ELSE ptr - 4
WindowHigh == IF ptr + 4 > DATA_SIZE - 1 THEN DATA_SIZE - 1 ELSE ptr + 4

\* C30: while running, tape lists exactly the cells max(0, ptr - 4) ..
\* min(DATA_SIZE - 1, ptr + 4) in ascending order, each with its value, and
\* flags exactly the cell at ptr; it changes nothing.
C30_TapeWindow ==
  [][(running /\ last'.handler = "tape") =>
       /\ report' = [n \in 1 .. (WindowHigh - WindowLow + 1) |->
                       <<IF WindowLow + n - 1 = ptr THEN ">>$" ELSE "$",
                         WindowLow + n - 1, data[WindowLow + n - 1]>>]
       /\ UNCHANGED <<program, loaded, runtime>>]_vars

\* tape with the data pointer at cell 5: the window starts at cell 1, which holds
\* 1, and its fifth entry is the flagged cell 5
C30_Witness ==
  /\ last.handler = "tape" /\ last.running /\ running /\ ptr = 5
  /\ report[1] = <<"$", 1, 1>>
  /\ report[5] = <<">>$", 5, 0>>

\* the commands other than file that take a turn
NotLoad == {"run", "next", "jump", "continue", "dataptr", "print", "tape"}

\* C31: the program (every instruction's operator and operand, and
\* instr_count) is changed by the load of a file only: run, next, jump,
\* continue, dataptr, print and tape, like every other command, leave it as
\* it is, so the pairs written by compile() are those of every later step
C31_ProgramOnlyByLoad ==
  [][/\ last'.handler \in NotLoad => UNCHANGED <<instructions, instr_count>>
     /\ <<instructions, instr_count>>' # <<instructions, instr_count>>
          => last'.handler = "file" /\ last'.arg # NULL]_vars

\* the ']' of the loop source still names its '[' after the run has
\* stepped, jumped and printed
C31_Witness ==
  /\ last.handler = "tape" /\ last.running /\ loaded
  /\ pc = 3 /\ data[0] = 1
  /\ instructions[3] = [operator |-> OP_RET, operand |-> 1]
  /\ instr_count = 5

\* C32: stepping OP_IN stores the byte read from the input in the cell at
\* ptr and, at end of input, stores EOF narrowed to the cell width, which
\* is USHORT_MOD - 1; no other cell changes, ptr and running stay and pc
\* advances by one
C32_Input ==
  [][Steps(OP_IN)
       => \E inp \in Inputs :
            Wrote(IF inp = <<>> THEN USHORT_MOD - 1 ELSE Head(inp))]_vars

\* the cell holds USHORT_MOD - 1 after a ',' stepped at end of input
C32_Witness ==
  /\ last.handler = "next" /\ last.arg = NULL /\ last.running /\ running
  /\ pc = 1 /\ instructions[0].operator = OP_IN
  /\ data[ptr] = USHORT_MOD - 1

\* a first word that is a command's name or exactly its initial letter
IsCommandWord(word) ==
  \E i \in 1 .. command_count : word = commands[i].name \/ word = <<commands[i].abbr>>

\* C33: a command line whose first word is neither a command's name nor
\* exactly its single initial letter invokes no handler and changes no
\* state (SpecWords issues such lines only)
C33_OtherWordsDoNothing ==
  [][/\ \A line \in WordLines : ~IsCommandWord(line[1])
     /\ last'.handler = "none"
     /\ UNCHANGED <<instructions, instr_count, stack, esp, run, loaded,
                    running, data, pc, ptr>>]_vars

\* C34: in every state in which running is true, pc < instr_count, the
\* END slot being the last one a run can stand on
C34_PcBelowCount == running => pc < instr_count

\* C35: in every state 0 <= ptr < DATA_SIZE, so data[ptr] is a cell of
\* the tape whenever it is read or written
C35_PtrInTape == 0 <= ptr /\ ptr < DATA_SIZE

\* a run standing on the last cell of the tape after a step
C35_Witness == running /\ ptr = DATA_SIZE - 1 /\ last.handler = "next" /\ last.running

\* the stored program has no bracket: every slot before the last holds one
\* of the six plain operators and the last holds OP_END
NoBrackets ==
  /\ loaded /\ instr_count >= 1
  /\ \A i \in 0 .. (instr_count - 2) : instructions[i].operator \in Plain
  /\ instructions[instr_count - 1].operator = OP_END

\* the run of at most instr_count steps from the current runtime
Bounded(inp, ub) == Repeat(instr_count, StepStart(Runtime, inp), instructions, ub)

\* C36: for a loaded program without brackets, continue from any running
\* state (whatever pc run, next or jump left) stops within instr_count
\* steps with running false, at OP_END or at the first pointer fault
C36_ContinueTerminates ==
  /\ [](running /\ NoBrackets =>
          \A inp \in Inputs, ub \in PastStore :
            LET a == Bounded(inp, ub) IN
            /\ a.ret /\ ~a.rt.running /\ a.steps <= instr_count - pc
            /\ \/ /\ instructions[a.rt.pc].operator = OP_END
                  /\ a.msgs = << <<"Brainfuck exited normally.">> >>
               \/ /\ instructions[a.rt.pc].operator \in {OP_INC, OP_DEC}
                  /\ a.msgs[1][1] = "Runtime error")
  /\ [][(last'.handler = "continue" /\ running /\ NoBrackets) =>
          /\ ~running'
          /\ ended' \in {"normal", "error"}
          /\ \E inp \in Inputs, ub \in PastStore :
               Reaches(Bounded(inp, ub)) /\ report' = Bounded(inp, ub).msgs]_vars

\* '><<' continued from its first instruction after a step and a jump back:
\* the run that would fault from ptr = 0 reaches OP_END in four steps
C36_Witness ==
  /\ last.handler = "continue" /\ last.running /\ NoBrackets
  /\ ~running /\ ended = "normal" /\ instr_count = 4 /\ pc = 3
  /\ instructions[0].operator = OP_INC

\* the operators whose case assigns to runtime->data[runtime->ptr]
CellStores == {OP_ADD, OP_SUB, OP_IN}

\* the tape dbg_interpret leaves for an instruction with operator op
TapeAfter(op, inp, ub) ==
  dbg_interpret(Runtime, [operator |-> op, operand |-> 0], instructions, ub, inp).rt.data

\* at most the cell at ptr differs between the tapes d and e
OnlyAtPtr(d, e) == \A i \in Cells \ {ptr} : e[i] = d[i]

\* C37: a single step changes at most one cell of the tape, the one at the
\* ptr held before the step, and only for OP_ADD, OP_SUB and OP_IN; the
\* other operators leave every cell as it is; the load of a file and jump
\* never change the tape, and run is the only command that zeroes it
C37_TapeFrame ==
  /\ [](\A op \in OP_END .. (OP_RET + 1), inp \in Inputs, ub \in PastStore :
          /\ OnlyAtPtr(data, TapeAfter(op, inp, ub))
          /\ op \notin CellStores => TapeAfter(op, inp, ub) = data)
  /\ [][/\ (last'.handler = "next" /\ last'.arg = NULL /\ running /\ pc < PROGRAM_SIZE) =>
            /\ OnlyAtPtr(data, data')
            /\ instructions[pc].operator \notin CellStores => data' = data
        /\ last'.handler \notin {"next", "continue", "run"} => data' = data
        /\ (last'.handler = "run" /\ loaded) => data' = AllZero]_vars

\* the byte read by ',' is still in its cell, and the other cells are
\* still zero, after a jump back to the first instruction
C37_Witness ==
  /\ data[0] = 65 /\ \A i \in Cells \ {0} : data[i] = 0
  /\ last.handler = "jump" /\ last.running /\ running /\ pc = 0

\* what dbg_interpret writes to the output for an instruction with operator op
OutputAfter(op, inp, ub) ==
  dbg_interpret(Runtime, [operator |-> op, operand |-> 0], instructions, ub, inp).out

\* C38: stepping OP_OUT writes exactly one byte, the cell at ptr modulo 256,
\* and changes neither the tape nor ptr; no other operator writes output
C38_Output ==
  /\ [](\A op \in OP_END .. (OP_RET + 1), inp \in Inputs, ub \in PastStore :
          OutputAfter(op, inp, ub) = IF op = OP_OUT THEN <<data[ptr] % 256>> ELSE <<>>)
  /\ [][/\ Steps(OP_OUT) =>
            /\ output' = <<data[ptr] % 256>>
            /\ data' = data /\ ptr' = ptr /\ pc' = pc + 1 /\ running'
        /\ \A op \in (OP_END .. OP_RET) \ {OP_OUT} : Steps(op) => output' = <<>>]_vars

\* the cell holds USHORT_MOD - 1 after ',' at end of input and '.' wrote
\* the byte 255
C38_Witness ==
  /\ last.handler = "next" /\ last.arg = NULL /\ last.running
  /\ pc = 2 /\ instructions[1].operator = OP_OUT
  /\ data[ptr] = USHORT_MOD - 1 /\ output = <<255>>


====
